---- MODULE Spec2Model ----
(***************************************************************************)
(* A model of see (src/src/see.c, second translation unit, lines 190-418): *)
(* a cat-like utility.  main scans argv, dispatches every path argument    *)
(* to process_path, which opens the file (or takes stdin) and hands the    *)
(* stream to copy_stream, the buffered fread/fwrite loop.  The C library   *)
(* and the operating system are the environment: every fopen, fread,       *)
(* fwrite, fclose and fflush picks one of the results the call can have.   *)
(***************************************************************************)
EXTENDS Integers, Sequences, FiniteSets, TLC

(* ---------------------------------------------------------------- bounds *)

\* Capacity of the static transfer buffer, scaled down from 64 KiB.
BUFFER_SIZE == 2
\* Longest argument list (argc - 1).
MaxArgs == 2
\* How many abnormal results the environment may produce in one run.
MaxFaults == 2

(* ----------------------------------------------------------- environment *)

Min(a, b) == IF a < b THEN a ELSE b

\* n distinct bytes base+1 .. base+n.
FileBytes(base, n) == [k \in 1..n |-> base + k]

\* The paths fopen succeeds on: "a" holds one full buffer and one byte more,
\* so its last fread is short.  Every other path ("x", and the option words
\* taken as paths) does not open.
ExistingFiles == {"a"}
FileContent(path) ==
    IF path = "a" THEN FileBytes(10, BUFFER_SIZE + 1) ELSE << >>
\* What standard input holds: exactly one buffer, so the fread that finds
\* its end returns 0.
StdinContent == FileBytes(30, BUFFER_SIZE)

\* The words an argument list is made of.
ArgTokens == {"a", "x", "-", "--", "-h", "-v"}
ArgLists == UNION {[1..n -> ArgTokens] : n \in 0..MaxArgs}

\* argv value of process_path(NULL)
NULL == "NULL"

\* The fixed texts of usage() and version(), as bytes no input holds.
UsageText == <<91, 92>>
VersionText == <<93>>

VARIABLES
    argv,            \* argv[1..argc-1]
    pc,              \* the statement the process is at
    i,               \* main: loop index
    overall_rc,      \* main
    options_ended,   \* main
    files_processed, \* main
    callSite,        \* which call of process_path is active: "loop" or "implicit"
    path,            \* process_path: its argument
    status,          \* process_path
    input_file,      \* process_path: the open handle's path, or "none"
    in,              \* copy_stream: "stdin", "file" or "none"
    stream_name,     \* copy_stream
    buffer,          \* copy_stream: static buffer
    bytes_read,      \* copy_stream
    written_total,   \* copy_stream
    copy_rc,         \* copy_stream's return value, once returned
    stdinS,          \* FILE state of stdin: pos, eof, err
    fileS,           \* FILE state of input_file
    stdoutErr,       \* ferror(stdout)
    stderrErr,       \* ferror(stderr)
    errno,
    out,             \* the bytes standard output accepted
    err,             \* the diagnostics, in order
    exitStatus,      \* "running", "success" or "failure"
    exitVia,         \* "none", "setup", "usage", "version" or "main"
    \* ---- history, read by the properties only
    faults,          \* abnormal environment results so far
    events,          \* <<dispatch number, kind>> of every abnormal result, in order
    dispatched,      \* arguments of the calls of process_path, in order
    verdicts,        \* return values of process_path, in order
    opened,          \* paths fopen succeeded on, in order
    closed,          \* paths fclose was called on, in order
    copyFrom,        \* Len(out) when the running copy started
    copyInPos,       \* the input's position when the running copy started
    readLog,         \* every byte fread delivered, in order
    starts,          \* <<Len(out), Len(readLog)>> at the start of every copy
    flushes          \* results of the final flushes, in order

vars == <<argv, pc, i, overall_rc, options_ended, files_processed, callSite,
          path, status, input_file, in, stream_name, buffer, bytes_read,
          written_total, copy_rc, stdinS, fileS, stdoutErr, stderrErr, errno,
          out, err, exitStatus, exitVia, faults, events, dispatched, verdicts,
          opened, closed, copyFrom, copyInPos, readLog, starts, flushes>>

FreshStream == [pos |-> 0, eof |-> FALSE, err |-> FALSE]

Init ==
    /\ argv \in ArgLists
    /\ pc = "platform_setup"
    /\ i = 1
    /\ overall_rc = 0
    /\ options_ended = 0
    /\ files_processed = 0
    /\ callSite = "none"
    /\ path = NULL
    /\ status = 0
    /\ input_file = "none"
    /\ in = "none"
    /\ stream_name = "none"
    /\ buffer = [k \in 1..BUFFER_SIZE |-> 0]
    /\ bytes_read = 0
    /\ written_total = 0
    /\ copy_rc = 0
    /\ stdinS = FreshStream
    /\ fileS = FreshStream
    /\ stdoutErr = FALSE
    /\ stderrErr = FALSE
    /\ errno = "0"
    /\ out = << >>
    /\ err = << >>
    /\ exitStatus = "running"
    /\ exitVia = "none"
    /\ faults = 0
    /\ events = << >>
    /\ dispatched = << >>
    /\ verdicts = << >>
    /\ opened = << >>
    /\ closed = << >>
    /\ copyFrom = 0
    /\ copyInPos = 0
    /\ readLog = << >>
    /\ starts = << >>
    /\ flushes = << >>

(* ------------------------------------------------------------- helpers *)

\* One line on the diagnostic stream: what failed, and the name it carries.
Diag(kind, name) == [kind |-> kind, name |-> name]

\* An abnormal result of the environment, recorded with the dispatch it hit.
Event(kind) == <<Len(dispatched), kind>>

\* Mutant: overall_rc = rc, the last verdict overwriting the earlier ones.
OrRcAssign(rc, r) == r

\* overall_rc |= rc
OrRc(rc, r) == IF rc = 0 /\ r = 0 THEN 0 ELSE 1

\* arg[0] == '-'
StartsWithDash(arg) == arg \in {"-", "--", "-h", "-v", "--help", "--version"}
IsTerminator(arg) == arg = "--"
IsHelp(arg) == arg = "-h" \/ arg = "--help"
IsVersion(arg) == arg = "-v" \/ arg = "--version"

\* Mutant: options are recognised after the terminator as before it.
ClassifyEverywhere(arg, ended) ==
    IF StartsWithDash(arg)
    THEN IF IsTerminator(arg) THEN "terminator"
         ELSE IF IsHelp(arg) THEN "help"
         ELSE IF IsVersion(arg) THEN "version"
         ELSE "path"
    ELSE "path"

\* main's classification of argv[i] under the current options_ended:
\* "terminator", "help", "version" or "path".
Classify(arg, ended) ==
    IF ended = 0 /\ StartsWithDash(arg)
    THEN IF IsTerminator(arg) THEN "terminator"
         ELSE IF IsHelp(arg) THEN "help"
         ELSE IF IsVersion(arg) THEN "version"
         ELSE "path"
    ELSE "path"

\* exit(): the process is over.
Exit(st, via) ==
    /\ pc' = "done"
    /\ exitStatus' = st
    /\ exitVia' = via

\* Mutant: fail fast, a failed path ends the loop over the arguments.
ReturnToMainFailFast(rc) ==
    /\ verdicts' = Append(verdicts, rc)
    /\ overall_rc' = OrRc(overall_rc, rc)
    /\ IF callSite = "loop" /\ rc = 0
       THEN /\ files_processed' = 1
            /\ i' = i + 1
            /\ pc' = "main_loop"
       ELSE /\ files_processed' = 1
            /\ UNCHANGED i
            /\ pc' = "flush_stdout"
    /\ callSite' = "none"

\* Mutant: the loop does not record that a path was processed.
ReturnToMainNoMark(rc) ==
    /\ verdicts' = Append(verdicts, rc)
    /\ overall_rc' = OrRc(overall_rc, rc)
    /\ IF callSite = "loop"
       THEN /\ UNCHANGED files_processed
            /\ i' = i + 1
            /\ pc' = "main_loop"
       ELSE /\ UNCHANGED <<files_processed, i>>
            /\ pc' = "flush_stdout"
    /\ callSite' = "none"

\* process_path returns rc to the call of main that made it.
ReturnToMain(rc) ==
    /\ verdicts' = Append(verdicts, rc)
    /\ overall_rc' = OrRc(overall_rc, rc)
    /\ IF callSite = "loop"
       THEN /\ files_processed' = 1
            /\ i' = i + 1
            /\ pc' = "main_loop"
       ELSE /\ UNCHANGED <<files_processed, i>>
            /\ pc' = "flush_stdout"
    /\ callSite' = "none"

copyVars == <<in, stream_name, buffer, bytes_read, written_total, copy_rc,
              copyFrom, copyInPos, readLog, starts>>
pathVars == <<callSite, path, status, input_file, dispatched, verdicts,
              opened, closed>>
streamVars == <<stdinS, fileS, stdoutErr, stderrErr>>
exitVars == <<exitStatus, exitVia>>

(* ------------------------------------------------------ platform_setup *)

\* sigaction(SIGPIPE, SIG_IGN) succeeds (or, on Windows, the three _setmode do).
PlatformSetup ==
    /\ pc = "platform_setup"
    /\ pc' = "stdout_setvbuf"
    /\ UNCHANGED <<argv, i, overall_rc, options_ended, files_processed, errno,
                   out, err, faults, events, flushes>>
    /\ UNCHANGED <<copyVars, pathVars, streamVars, exitVars>>

\* Mutant: the failed setup is reported and the run goes on.
PlatformSetupFatalGoesOn ==
    /\ pc = "platform_setup"
    /\ faults < MaxFaults
    /\ faults' = faults + 1
    /\ events' = Append(events, Event("setup"))
    /\ errno' = "EINVAL"
    /\ err' = Append(err, Diag("setup", "SIGPIPE"))
    /\ pc' = "stdout_setvbuf"
    /\ UNCHANGED <<argv, i, overall_rc, options_ended, files_processed, out,
                   flushes>>
    /\ UNCHANGED <<copyVars, pathVars, streamVars, exitVars>>

\* The setup fails: a diagnostic, then exit(EXIT_FAILURE).
PlatformSetupFatal ==
    /\ pc = "platform_setup"
    /\ faults < MaxFaults
    /\ faults' = faults + 1
    /\ events' = Append(events, Event("setup"))
    /\ errno' = "EINVAL"
    /\ err' = Append(err, Diag("setup", "SIGPIPE"))
    /\ Exit("failure", "setup")
    /\ UNCHANGED <<argv, i, overall_rc, options_ended, files_processed, out,
                   flushes>>
    /\ UNCHANGED <<copyVars, pathVars, streamVars>>

(* ---------------------------------------------------------------- main *)

\* setvbuf(stdout, ...): a failure is a warning only.
MainSetvbuf ==
    /\ pc = "stdout_setvbuf"
    /\ pc' = "main_loop"
    /\ \/ UNCHANGED <<err, faults, events, errno>>
       \/ /\ faults < MaxFaults
          /\ faults' = faults + 1
          /\ events' = Append(events, Event("setvbuf"))
          /\ errno' = "EINVAL"
          /\ err' = Append(err, Diag("setvbuf_warning", "stdout"))
    /\ UNCHANGED <<argv, i, overall_rc, options_ended, files_processed, out,
                   flushes>>
    /\ UNCHANGED <<copyVars, pathVars, streamVars, exitVars>>

\* The first "--": options_ended = 1, is_filepath = 0.
MainTerminator ==
    /\ pc = "main_loop"
    /\ i <= Len(argv)
    /\ Classify(argv[i], options_ended) = "terminator"
    /\ options_ended' = 1
    /\ i' = i + 1
    /\ UNCHANGED <<argv, pc, overall_rc, files_processed, errno, out, err,
                   faults, events, flushes>>
    /\ UNCHANGED <<copyVars, pathVars, streamVars, exitVars>>

\* -h / --help: usage() prints to stdout and exits.
usage ==
    /\ pc = "main_loop"
    /\ i <= Len(argv)
    /\ Classify(argv[i], options_ended) = "help"
    /\ out' = out \o UsageText
    /\ Exit("success", "usage")
    /\ UNCHANGED <<argv, i, overall_rc, options_ended, files_processed, errno,
                   err, faults, events, flushes>>
    /\ UNCHANGED <<copyVars, pathVars, streamVars>>

\* -v / --version: version() prints to stdout and exits.
version ==
    /\ pc = "main_loop"
    /\ i <= Len(argv)
    /\ Classify(argv[i], options_ended) = "version"
    /\ out' = out \o VersionText
    /\ Exit("success", "version")
    /\ UNCHANGED <<argv, i, overall_rc, options_ended, files_processed, errno,
                   err, faults, events, flushes>>
    /\ UNCHANGED <<copyVars, pathVars, streamVars>>

\* is_filepath: overall_rc |= process_path(arg), entered here.
MainDispatch ==
    /\ pc = "main_loop"
    /\ i <= Len(argv)
    /\ Classify(argv[i], options_ended) = "path"
    /\ pc' = "process_path"
    /\ callSite' = "loop"
    /\ path' = argv[i]
    /\ status' = 0
    /\ dispatched' = Append(dispatched, argv[i])
    /\ UNCHANGED <<argv, i, overall_rc, options_ended, files_processed, errno,
                   out, err, faults, events, flushes, input_file, verdicts,
                   opened, closed>>
    /\ UNCHANGED <<copyVars, streamVars, exitVars>>

\* After the loop, nothing was dispatched: overall_rc |= process_path(NULL).
MainImplicitStdin ==
    /\ pc = "main_loop"
    /\ i > Len(argv)
    /\ files_processed = 0
    /\ pc' = "process_path"
    /\ callSite' = "implicit"
    /\ path' = NULL
    /\ status' = 0
    /\ dispatched' = Append(dispatched, NULL)
    /\ UNCHANGED <<argv, i, overall_rc, options_ended, files_processed, errno,
                   out, err, faults, events, flushes, input_file, verdicts,
                   opened, closed>>
    /\ UNCHANGED <<copyVars, streamVars, exitVars>>

\* After the loop, something was dispatched: on to the flushes.
MainLoopDone ==
    /\ pc = "main_loop"
    /\ i > Len(argv)
    /\ files_processed # 0
    /\ pc' = "flush_stdout"
    /\ UNCHANGED <<argv, i, overall_rc, options_ended, files_processed, errno,
                   out, err, faults, events, flushes>>
    /\ UNCHANGED <<copyVars, pathVars, streamVars, exitVars>>

(* -------------------------------------------------------- process_path *)

\* Mutant: only the NULL sentinel means standard input; "-" is opened.
IsStdinPathNullOnly(p) == p = NULL

\* path == NULL || strcmp(path, "-") == 0
IsStdinPath(p) == p = NULL \/ p = "-"

\* return copy_stream(stdin, "stdin"): nothing is opened.
ProcessPathStdin ==
    /\ pc = "process_path"
    /\ IsStdinPath(path)
    /\ pc' = "fread"
    /\ in' = "stdin"
    /\ stream_name' = "stdin"
    /\ copyFrom' = Len(out)
    /\ copyInPos' = stdinS.pos
    /\ UNCHANGED readLog
    /\ starts' = Append(starts, <<Len(out), Len(readLog)>>)
    /\ UNCHANGED <<argv, i, overall_rc, options_ended, files_processed, errno,
                   out, err, faults, events, flushes, buffer, bytes_read,
                   written_total, copy_rc>>
    /\ UNCHANGED <<pathVars, streamVars, exitVars>>

\* Mutant: the "return 1" is missing, the failed open falls into the copy.
ProcessPathOpenFailNoReturn ==
    /\ pc = "process_path"
    /\ ~IsStdinPath(path)
    /\ path \notin ExistingFiles
    /\ events' = Append(events, Event("open"))
    /\ errno' = "ENOENT"
    /\ err' = Append(err, Diag("open", path))
    /\ pc' = "fread"
    /\ in' = "file"
    /\ stream_name' = path
    /\ fileS' = FreshStream
    /\ UNCHANGED <<argv, i, overall_rc, options_ended, files_processed, out,
                   flushes, faults, buffer, bytes_read, written_total,
                   copy_rc, copyFrom, copyInPos, readLog, starts, stdinS,
                   stdoutErr, stderrErr>>
    /\ UNCHANGED <<pathVars, exitVars>>

\* fopen(path, "rb") returns NULL: a diagnostic naming the path, return 1.
ProcessPathOpenFail ==
    /\ pc = "process_path"
    /\ ~IsStdinPath(path)
    /\ path \notin ExistingFiles
    /\ events' = Append(events, Event("open"))
    /\ errno' = "ENOENT"
    /\ err' = Append(err, Diag("open", path))
    /\ ReturnToMain(1)
    /\ UNCHANGED <<argv, options_ended, out, flushes, path, status, input_file,
                   dispatched, opened, closed, faults>>
    /\ UNCHANGED <<copyVars, streamVars, exitVars>>

\* fopen succeeds; setvbuf on the handle (a failure is a warning only); then
\* copy_stream(input_file, path) is entered.
ProcessPathOpen ==
    /\ pc = "process_path"
    /\ ~IsStdinPath(path)
    /\ path \in ExistingFiles
    /\ input_file' = path
    /\ opened' = Append(opened, path)
    /\ fileS' = FreshStream
    /\ \/ UNCHANGED <<err, faults, events, errno>>
       \/ /\ faults < MaxFaults
          /\ faults' = faults + 1
          /\ events' = Append(events, Event("setvbuf"))
          /\ errno' = "EINVAL"
          /\ err' = Append(err, Diag("setvbuf_warning", path))
    /\ pc' = "fread"
    /\ in' = "file"
    /\ stream_name' = path
    /\ copyFrom' = Len(out)
    /\ copyInPos' = 0
    /\ UNCHANGED readLog
    /\ starts' = Append(starts, <<Len(out), Len(readLog)>>)
    /\ UNCHANGED <<argv, i, overall_rc, options_ended, files_processed, out,
                   flushes, buffer, bytes_read, written_total, copy_rc,
                   callSite, path, status, dispatched, verdicts, closed,
                   stdinS, stdoutErr, stderrErr>>
    /\ UNCHANGED exitVars

\* copy_stream(stdin, ...) has returned: process_path returns its value.
ProcessPathStdinReturn ==
    /\ pc = "copy_ret"
    /\ in = "stdin"
    /\ in' = "none"
    /\ ReturnToMain(copy_rc)
    /\ UNCHANGED <<argv, options_ended, errno, out, err, faults, events,
                   flushes, path, status, input_file, dispatched, opened,
                   closed, stream_name, buffer, bytes_read, written_total,
                   copy_rc, copyFrom, copyInPos, readLog, starts>>
    /\ UNCHANGED <<streamVars, exitVars>>

\* Mutant: the result of fclose is dropped.
CloseStatusCopyOnly(copyRc, closeFailed) == IF copyRc # 0 THEN 1 ELSE 0

\* status after "if (copy_stream(...) != 0) status = 1" and the fclose.
CloseStatus(copyRc, closeFailed) == IF copyRc # 0 \/ closeFailed THEN 1 ELSE 0

\* Mutant: a failed copy returns at once, without the fclose.
FcloseReachedOnSuccess(copyRc) == copyRc = 0

\* Is fclose(input_file) reached after a copy that returned copyRc?  It is
\* on every path out of process_path once the open succeeded.
FcloseReached(copyRc) == TRUE

\* copy_stream(input_file, path) has returned: status, fclose, return status.
ProcessPathClose ==
    /\ pc = "copy_ret"
    /\ in = "file"
    /\ in' = "none"
    /\ IF FcloseReached(copy_rc)
       THEN /\ closed' = Append(closed, input_file)
            /\ input_file' = "none"
       ELSE UNCHANGED <<closed, input_file>>
    /\ \E closeFailed \in BOOLEAN :
        /\ closeFailed => FcloseReached(copy_rc)
        /\ IF closeFailed
           THEN /\ faults < MaxFaults
                /\ faults' = faults + 1
                /\ events' = Append(events, Event("close"))
                /\ errno' = "EIO"
                /\ err' = Append(err, Diag("close", path))
           ELSE UNCHANGED <<err, faults, events, errno>>
        /\ status' = CloseStatus(copy_rc, closeFailed)
        /\ ReturnToMain(CloseStatus(copy_rc, closeFailed))
    /\ UNCHANGED <<argv, options_ended, out, flushes, path, dispatched,
                   opened, stream_name, buffer, bytes_read, written_total,
                   copy_rc, copyFrom, copyInPos, readLog, starts>>
    /\ UNCHANGED <<streamVars, exitVars>>

(* --------------------------------------------------------- copy_stream *)

\* The stream copy_stream reads, and what it holds.
InStream == IF in = "stdin" THEN stdinS ELSE fileS
InContent == IF in = "stdin" THEN StdinContent ELSE FileContent(input_file)
SetInStream(s) ==
    IF in = "stdin" THEN stdinS' = s /\ UNCHANGED fileS
                    ELSE fileS' = s /\ UNCHANGED stdinS

\* clearerr(): both indicators off.
ClearErr(s) == [s EXCEPT !.eof = FALSE, !.err = FALSE]

\* What fread(buffer, 1, sizeof(buffer), in) can return on stream s over
\* content c: the count n, the stream afterwards, errno ("same": untouched)
\* and the abnormal result it was, if any.  fread delivers a full buffer or
\* everything up to the end (then the end-of-file indicator is set); or a
\* signal cuts it short after k > 0 bytes (error indicator set, EINTR); or it
\* fails before any byte (error indicator set, EINTR or EIO); or, as the
\* code's defensive branch allows for, it returns 0 with no indicator set.
FreadResults(s, c) ==
    LET rem == Len(c) - s.pos
        full == Min(BUFFER_SIZE, rem)
    IN  IF s.eof
        THEN {[n |-> 0, s |-> s, errno |-> "same", fault |-> "none"]}
        ELSE {[n |-> full,
               s |-> [s EXCEPT !.pos = s.pos + full,
                               !.eof = (rem < BUFFER_SIZE)],
               errno |-> "same", fault |-> "none"]}
             \cup
             {[n |-> k,
               s |-> [s EXCEPT !.pos = s.pos + k, !.err = TRUE],
               errno |-> "EINTR", fault |-> "read_partial"] :
                 k \in 1..(full - 1)}
             \cup
             {[n |-> 0, s |-> [s EXCEPT !.err = TRUE], errno |-> e,
               fault |-> IF e = "EINTR" THEN "read_eintr" ELSE "read_eio"] :
                 e \in {"EINTR", "EIO"}}
             \cup
             {[n |-> 0, s |-> s, errno |-> "same", fault |-> "read_zero"]}

\* What fwrite(buffer + written_total, 1, len, stdout) can return for len > 0:
\* all of it; or 0 < k < len items, the output taking no more for now (error
\* indicator set, EAGAIN); or nothing, with the error indicator set and
\* EPIPE, EINTR or EIO; or, as the code's last branch allows for, 0 with no
\* indicator set.
FwriteResults(len) ==
    {[n |-> len, err |-> stdoutErr, errno |-> "same", fault |-> "none"]}
    \cup
    {[n |-> k, err |-> TRUE, errno |-> "EAGAIN", fault |-> "write_partial"] :
        k \in 1..(len - 1)}
    \cup
    {[n |-> 0, err |-> TRUE, errno |-> e,
      fault |-> IF e = "EPIPE" THEN "write_epipe"
                ELSE IF e = "EINTR" THEN "write_eintr"
                ELSE "write_eio"] :
        e \in {"EPIPE", "EINTR", "EIO"}}
    \cup
    {[n |-> 0, err |-> stdoutErr, errno |-> "same", fault |-> "write_zero"]}

\* errno after a call that reports r.errno.
ErrnoAfter(r) == IF r.errno = "same" THEN errno ELSE r.errno

\* The environment produced r: abnormal results are bounded and recorded.
Environment(r) ==
    IF r.fault = "none"
    THEN UNCHANGED <<faults, events>>
    ELSE /\ faults < MaxFaults
         /\ faults' = faults + 1
         /\ events' = Append(events, Event(r.fault))

\* buffer after fread stored n bytes of c, read from position pos.
BufferAfterRead(buf, c, pos, n) ==
    [k \in 1..BUFFER_SIZE |-> IF k <= n THEN c[pos + k] ELSE buf[k]]

\* Mutant: the write restarts at the head of the buffer, not at the cursor.
WriteSliceFromHead(buf, cursor, n) == SubSeq(buf, 1, n)

\* The bytes fwrite(buffer + cursor, 1, n, stdout) takes.
WriteSlice(buf, cursor, n) == SubSeq(buf, cursor + 1, cursor + n)

\* Mutant: the cursor counts the writes, not the bytes written.
AdvanceCursorByOne(cursor, written) == cursor + 1

\* Mutant: the cursor is not advanced by what was written.
AdvanceCursorStuck(cursor, written) == cursor

\* written_total += written
AdvanceCursor(cursor, written) == cursor + written

\* Mutant: one fwrite per fread, an if where the loop is.
WriteLoopOnce(cursor, fill) == FALSE

\* while (written_total < bytes_read)
WriteLoopGoesOn(cursor, fill) == cursor < fill

\* return rc
CopyReturn(rc) ==
    /\ pc' = "copy_ret"
    /\ copy_rc' = rc

mainVars == <<argv, i, overall_rc, options_ended, files_processed, flushes>>

\* Mutant: no defensive branch, a zero read with no indicator is an error.
ZeroReadBranchNoDefence(eof, ferr, e) ==
    IF eof THEN "eof"
    ELSE IF ferr THEN (IF e = "EINTR" THEN "retry" ELSE "error")
    ELSE "error"

\* What copy_stream does after a read of 0 items, given feof(in), ferror(in)
\* and errno: "eof" (break), "retry" (clearerr, continue), "error"
\* (diagnostic, return 1) or "zero" (break).
ZeroReadBranch(eof, ferr, e) ==
    IF eof THEN "eof"
    ELSE IF ferr THEN (IF e = "EINTR" THEN "retry" ELSE "error")
    ELSE "zero"

\* bytes_read > 0: the buffer holds them, written_total = 0, on to the writes.
CopyReadData ==
    /\ pc = "fread"
    /\ \E r \in FreadResults(InStream, InContent) :
        /\ r.n > 0
        /\ Environment(r)
        /\ errno' = ErrnoAfter(r)
        /\ SetInStream(r.s)
        /\ buffer' = BufferAfterRead(buffer, InContent, InStream.pos, r.n)
        /\ bytes_read' = r.n
        /\ readLog' = readLog \o SubSeq(InContent, InStream.pos + 1,
                                         InStream.pos + r.n)
    /\ written_total' = 0
    /\ pc' = "fwrite"
    /\ UNCHANGED <<in, stream_name, copy_rc, copyFrom, copyInPos, starts,
                   stdoutErr, stderrErr, out, err>>
    /\ UNCHANGED <<mainVars, pathVars, exitVars>>

\* bytes_read == 0 and feof(in): break, return 0.
CopyReadEof ==
    /\ pc = "fread"
    /\ \E r \in FreadResults(InStream, InContent) :
        /\ r.n = 0
        /\ ZeroReadBranch(r.s.eof, r.s.err, ErrnoAfter(r)) = "eof"
        /\ Environment(r)
        /\ errno' = ErrnoAfter(r)
        /\ SetInStream(r.s)
    /\ bytes_read' = 0
    /\ CopyReturn(0)
    /\ UNCHANGED <<in, stream_name, buffer, written_total, copyFrom,
                   copyInPos, readLog, starts, stdoutErr, stderrErr, out,
                   err>>
    /\ UNCHANGED <<mainVars, pathVars, exitVars>>

\* bytes_read == 0, ferror(in), errno == EINTR: clearerr(in), continue.
CopyReadInterrupted ==
    /\ pc = "fread"
    /\ \E r \in FreadResults(InStream, InContent) :
        /\ r.n = 0
        /\ ZeroReadBranch(r.s.eof, r.s.err, ErrnoAfter(r)) = "retry"
        /\ Environment(r)
        /\ errno' = ErrnoAfter(r)
        /\ SetInStream(ClearErr(r.s))
    /\ bytes_read' = 0
    /\ UNCHANGED <<pc, in, stream_name, buffer, written_total, copy_rc,
                   copyFrom, copyInPos, readLog, starts, stdoutErr, stderrErr,
                   out, err>>
    /\ UNCHANGED <<mainVars, pathVars, exitVars>>

\* bytes_read == 0, ferror(in), another errno: diagnostic, return 1.
CopyReadError ==
    /\ pc = "fread"
    /\ \E r \in FreadResults(InStream, InContent) :
        /\ r.n = 0
        /\ ZeroReadBranch(r.s.eof, r.s.err, ErrnoAfter(r)) = "error"
        /\ Environment(r)
        /\ errno' = ErrnoAfter(r)
        /\ SetInStream(r.s)
    /\ bytes_read' = 0
    /\ err' = Append(err, Diag("read", stream_name))
    /\ CopyReturn(1)
    /\ UNCHANGED <<in, stream_name, buffer, written_total, copyFrom,
                   copyInPos, readLog, starts, stdoutErr, stderrErr, out>>
    /\ UNCHANGED <<mainVars, pathVars, exitVars>>

\* bytes_read == 0, neither feof nor ferror: break, return 0.
CopyReadZero ==
    /\ pc = "fread"
    /\ \E r \in FreadResults(InStream, InContent) :
        /\ r.n = 0
        /\ ZeroReadBranch(r.s.eof, r.s.err, ErrnoAfter(r)) = "zero"
        /\ Environment(r)
        /\ errno' = ErrnoAfter(r)
        /\ SetInStream(r.s)
    /\ bytes_read' = 0
    /\ CopyReturn(0)
    /\ UNCHANGED <<in, stream_name, buffer, written_total, copyFrom,
                   copyInPos, readLog, starts, stdoutErr, stderrErr, out,
                   err>>
    /\ UNCHANGED <<mainVars, pathVars, exitVars>>

\* written > 0: the bytes at the cursor go out, the cursor advances; the
\* inner loop goes on while written_total < bytes_read, then the next fread.
CopyWriteData ==
    /\ pc = "fwrite"
    /\ \E r \in FwriteResults(bytes_read - written_total) :
        /\ r.n > 0
        /\ Environment(r)
        /\ errno' = ErrnoAfter(r)
        /\ stdoutErr' = r.err
        /\ out' = out \o WriteSlice(buffer, written_total, r.n)
        /\ written_total' = AdvanceCursor(written_total, r.n)
        /\ pc' = IF WriteLoopGoesOn(AdvanceCursor(written_total, r.n),
                                    bytes_read)
                 THEN "fwrite" ELSE "fread"
    /\ UNCHANGED <<in, stream_name, buffer, bytes_read, copy_rc, copyFrom,
                   copyInPos, readLog, starts, stdinS, fileS, stderrErr, err>>
    /\ UNCHANGED <<mainVars, pathVars, exitVars>>

\* Mutant: no EPIPE case, a broken pipe is a write error like any other.
ZeroWriteBranchNoEpipe(ferr, e) ==
    IF ferr
    THEN IF e = "EINTR" THEN "retry" ELSE "error"
    ELSE "zero"

\* Mutant: no EINTR case, an interrupted write is a write error.
ZeroWriteBranchNoEintr(ferr, e) ==
    IF ferr
    THEN IF e = "EPIPE" THEN "success" ELSE "error"
    ELSE "zero"

\* Mutant: every error state of the output but the broken pipe is retried.
ZeroWriteBranchRetryAll(ferr, e) ==
    IF ferr
    THEN IF e = "EPIPE" THEN "success" ELSE "retry"
    ELSE "zero"

\* What copy_stream does after a write of 0 items, given ferror(stdout) and
\* errno: "success" (broken pipe), "retry" (interrupted), "error", "zero".
ZeroWriteBranch(ferr, e) ==
    IF ferr
    THEN IF e = "EPIPE" THEN "success"
         ELSE IF e = "EINTR" THEN "retry"
         ELSE "error"
    ELSE "zero"

\* written == 0, ferror(stdout), errno == EPIPE: clearerr(stdout), return 0.
CopyWriteBrokenPipe ==
    /\ pc = "fwrite"
    /\ \E r \in FwriteResults(bytes_read - written_total) :
        /\ r.n = 0
        /\ ZeroWriteBranch(r.err, ErrnoAfter(r)) = "success"
        /\ Environment(r)
        /\ errno' = ErrnoAfter(r)
    /\ stdoutErr' = FALSE
    /\ CopyReturn(0)
    /\ UNCHANGED <<in, stream_name, buffer, bytes_read, written_total,
                   copyFrom, copyInPos, readLog, starts, stdinS, fileS,
                   stderrErr, out, err>>
    /\ UNCHANGED <<mainVars, pathVars, exitVars>>

\* written == 0, ferror(stdout), errno == EINTR: clearerr(stdout), continue.
CopyWriteInterrupted ==
    /\ pc = "fwrite"
    /\ \E r \in FwriteResults(bytes_read - written_total) :
        /\ r.n = 0
        /\ ZeroWriteBranch(r.err, ErrnoAfter(r)) = "retry"
        /\ Environment(r)
        /\ errno' = ErrnoAfter(r)
    /\ stdoutErr' = FALSE
    /\ UNCHANGED <<pc, in, stream_name, buffer, bytes_read, written_total,
                   copy_rc, copyFrom, copyInPos, readLog, starts, stdinS,
                   fileS, stderrErr, out, err>>
    /\ UNCHANGED <<mainVars, pathVars, exitVars>>

\* written == 0, ferror(stdout), another errno: diagnostic, return 1.
CopyWriteError ==
    /\ pc = "fwrite"
    /\ \E r \in FwriteResults(bytes_read - written_total) :
        /\ r.n = 0
        /\ ZeroWriteBranch(r.err, ErrnoAfter(r)) = "error"
        /\ Environment(r)
        /\ errno' = ErrnoAfter(r)
        /\ stdoutErr' = r.err
    /\ err' = Append(err, Diag("write", "stdout"))
    /\ CopyReturn(1)
    /\ UNCHANGED <<in, stream_name, buffer, bytes_read, written_total,
                   copyFrom, copyInPos, readLog, starts, stdinS, fileS,
                   stderrErr, out>>
    /\ UNCHANGED <<mainVars, pathVars, exitVars>>

\* written == 0 and no error indicator: "unexpected zero write", return 1.
CopyWriteZero ==
    /\ pc = "fwrite"
    /\ \E r \in FwriteResults(bytes_read - written_total) :
        /\ r.n = 0
        /\ ZeroWriteBranch(r.err, ErrnoAfter(r)) = "zero"
        /\ Environment(r)
        /\ errno' = ErrnoAfter(r)
        /\ stdoutErr' = r.err
    /\ err' = Append(err, Diag("zero_write", "stdout"))
    /\ CopyReturn(1)
    /\ UNCHANGED <<in, stream_name, buffer, bytes_read, written_total,
                   copyFrom, copyInPos, readLog, starts, stdinS, fileS,
                   stderrErr, out>>
    /\ UNCHANGED <<mainVars, pathVars, exitVars>>

(* ------------------------------------------------- main: final flushes *)

\* What a failing fflush can set errno to.
FflushErrnos == {"EPIPE", "EINTR", "EIO"}

\* What the stdout loop does after fflush(stdout) != 0 with errno e:
\* "success" (clearerr, break), "retry" (clearerr, continue) or "error".
StdoutFlushBranch(e) ==
    IF e = "EPIPE" THEN "success"
    ELSE IF e = "EINTR" THEN "retry"
    ELSE "error"

\* What the stderr loop does after fflush(stderr) != 0 with errno e.
StderrFlushBranch(e) == IF e = "EINTR" THEN "retry" ELSE "error"

flushRest == <<argv, i, options_ended, files_processed, out>>

\* fflush(stdout) == 0
MainFlushStdout ==
    /\ pc = "flush_stdout"
    /\ pc' = "flush_stderr"
    /\ flushes' = Append(flushes, "ok")
    /\ UNCHANGED <<overall_rc, errno, err, faults, events>>
    /\ UNCHANGED <<flushRest, copyVars, pathVars, streamVars, exitVars>>

\* fflush(stdout) != 0, errno == EPIPE: clearerr(stdout), break.
MainFlushStdoutBrokenPipe ==
    /\ pc = "flush_stdout"
    /\ faults < MaxFaults
    /\ \E e \in FflushErrnos :
        /\ StdoutFlushBranch(e) = "success"
        /\ errno' = e
        /\ events' = Append(events, Event("flush_epipe"))
    /\ faults' = faults + 1
    /\ stdoutErr' = FALSE
    /\ pc' = "flush_stderr"
    /\ flushes' = Append(flushes, "epipe")
    /\ UNCHANGED <<overall_rc, err, stdinS, fileS, stderrErr>>
    /\ UNCHANGED <<flushRest, copyVars, pathVars, exitVars>>

\* fflush(stdout) != 0, errno == EINTR: clearerr(stdout), continue.
MainFlushStdoutInterrupted ==
    /\ pc = "flush_stdout"
    /\ faults < MaxFaults
    /\ \E e \in FflushErrnos :
        /\ StdoutFlushBranch(e) = "retry"
        /\ errno' = e
        /\ events' = Append(events, Event("flush_eintr"))
    /\ faults' = faults + 1
    /\ stdoutErr' = FALSE
    /\ UNCHANGED <<pc, flushes, overall_rc, err, stdinS, fileS, stderrErr>>
    /\ UNCHANGED <<flushRest, copyVars, pathVars, exitVars>>

\* fflush(stdout) != 0, another errno: diagnostic, overall_rc = 1, break.
MainFlushStdoutError ==
    /\ pc = "flush_stdout"
    /\ faults < MaxFaults
    /\ \E e \in FflushErrnos :
        /\ StdoutFlushBranch(e) = "error"
        /\ errno' = e
        /\ events' = Append(events, Event("flush_eio"))
    /\ faults' = faults + 1
    /\ stdoutErr' = TRUE
    /\ err' = Append(err, Diag("flush", "stdout"))
    /\ overall_rc' = 1
    /\ pc' = "flush_stderr"
    /\ flushes' = Append(flushes, "fail")
    /\ UNCHANGED <<stdinS, fileS, stderrErr>>
    /\ UNCHANGED <<flushRest, copyVars, pathVars, exitVars>>

\* fflush(stderr) == 0
MainFlushStderr ==
    /\ pc = "flush_stderr"
    /\ pc' = "return"
    /\ flushes' = Append(flushes, "ok")
    /\ UNCHANGED <<overall_rc, errno, err, faults, events>>
    /\ UNCHANGED <<flushRest, copyVars, pathVars, streamVars, exitVars>>

\* fflush(stderr) != 0, errno == EINTR: clearerr(stderr), continue.
MainFlushStderrInterrupted ==
    /\ pc = "flush_stderr"
    /\ faults < MaxFaults
    /\ \E e \in FflushErrnos :
        /\ StderrFlushBranch(e) = "retry"
        /\ errno' = e
        /\ events' = Append(events, Event("eflush_eintr"))
    /\ faults' = faults + 1
    /\ stderrErr' = FALSE
    /\ UNCHANGED <<pc, flushes, overall_rc, err, stdinS, fileS, stdoutErr>>
    /\ UNCHANGED <<flushRest, copyVars, pathVars, exitVars>>

\* Mutant: a failed flush of stderr is let pass, as a broken pipe on stdout is.
MainFlushStderrErrorIgnored ==
    /\ pc = "flush_stderr"
    /\ faults < MaxFaults
    /\ \E e \in FflushErrnos :
        /\ StderrFlushBranch(e) = "error"
        /\ errno' = e
        /\ events' = Append(events, Event(IF e = "EPIPE" THEN "eflush_epipe"
                                                          ELSE "eflush_eio"))
    /\ faults' = faults + 1
    /\ stderrErr' = FALSE
    /\ pc' = "return"
    /\ flushes' = Append(flushes, "epipe")
    /\ UNCHANGED <<overall_rc, err, stdinS, fileS, stdoutErr>>
    /\ UNCHANGED <<flushRest, copyVars, pathVars, exitVars>>

\* fflush(stderr) != 0, any other errno: overall_rc = 1, break, no diagnostic.
MainFlushStderrError ==
    /\ pc = "flush_stderr"
    /\ faults < MaxFaults
    /\ \E e \in FflushErrnos :
        /\ StderrFlushBranch(e) = "error"
        /\ errno' = e
        /\ events' = Append(events, Event(IF e = "EPIPE" THEN "eflush_epipe"
                                                          ELSE "eflush_eio"))
    /\ faults' = faults + 1
    /\ stderrErr' = TRUE
    /\ overall_rc' = 1
    /\ pc' = "return"
    /\ flushes' = Append(flushes, "fail")
    /\ UNCHANGED <<err, stdinS, fileS, stdoutErr>>
    /\ UNCHANGED <<flushRest, copyVars, pathVars, exitVars>>

\* EXIT_SUCCESS or EXIT_FAILURE from overall_rc
ExitCode(rc) == IF rc = 0 THEN "success" ELSE "failure"

\* return (overall_rc == 0) ? EXIT_SUCCESS : EXIT_FAILURE;
MainReturn ==
    /\ pc = "return"
    /\ Exit(ExitCode(overall_rc), "main")
    /\ UNCHANGED <<argv, i, overall_rc, options_ended, files_processed, errno,
                   out, err, faults, events, flushes>>
    /\ UNCHANGED <<copyVars, pathVars, streamVars>>

(* ------------------------------------------------------- specification *)

Next ==
    \/ PlatformSetup
    \/ PlatformSetupFatal
    \/ MainSetvbuf
    \/ MainTerminator
    \/ usage
    \/ version
    \/ MainDispatch
    \/ MainImplicitStdin
    \/ MainLoopDone
    \/ ProcessPathStdin
    \/ ProcessPathOpenFail
    \/ ProcessPathOpen
    \/ ProcessPathStdinReturn
    \/ ProcessPathClose
    \/ CopyReadData
    \/ CopyReadEof
    \/ CopyReadInterrupted
    \/ CopyReadError
    \/ CopyReadZero
    \/ CopyWriteData
    \/ CopyWriteBrokenPipe
    \/ CopyWriteInterrupted
    \/ CopyWriteError
    \/ CopyWriteZero
    \/ MainFlushStdout
    \/ MainFlushStdoutBrokenPipe
    \/ MainFlushStdoutInterrupted
    \/ MainFlushStdoutError
    \/ MainFlushStderr
    \/ MainFlushStderrInterrupted
    \/ MainFlushStderrError
    \/ MainReturn

Spec == Init /\ [][Next]_vars

\* The argument lists with a "--" put in at every position: one word longer
\* than those of Spec, so that paths stand on both sides of the terminator.
InsertTerminator(l, p) ==
    SubSeq(l, 1, p) \o <<"--">> \o SubSeq(l, p + 1, Len(l))
TerminatedArgLists ==
    {InsertTerminator(q[1], q[2]) :
        q \in {r \in ArgLists \X (0..MaxArgs) : r[2] <= Len(r[1])}}

\* The process started on an argument list with a terminator; the
\* environment has one abnormal result left to produce.
InitTerminated ==
    /\ argv \in TerminatedArgLists
    /\ pc = "platform_setup"
    /\ i = 1
    /\ overall_rc = 0
    /\ options_ended = 0
    /\ files_processed = 0
    /\ callSite = "none"
    /\ path = NULL
    /\ status = 0
    /\ input_file = "none"
    /\ in = "none"
    /\ stream_name = "none"
    /\ buffer = [k \in 1..BUFFER_SIZE |-> 0]
    /\ bytes_read = 0
    /\ written_total = 0
    /\ copy_rc = 0
    /\ stdinS = FreshStream
    /\ fileS = FreshStream
    /\ stdoutErr = FALSE
    /\ stderrErr = FALSE
    /\ errno = "0"
    /\ out = << >>
    /\ err = << >>
    /\ exitStatus = "running"
    /\ exitVia = "none"
    /\ faults = MaxFaults - 1
    /\ events = << >>
    /\ dispatched = << >>
    /\ verdicts = << >>
    /\ opened = << >>
    /\ closed = << >>
    /\ copyFrom = 0
    /\ copyInPos = 0
    /\ readLog = << >>
    /\ starts = << >>
    /\ flushes = << >>

SpecTerminated == InitTerminated /\ [][Next]_vars

\* The process is scheduled as long as it has a step to take: no call
\* blocks for ever on a finite input, and the environment's abnormal
\* results, interruptions among them, are MaxFaults at most.
\* The runs are those with fewer than MaxArgs arguments.
InitShort == Init /\ Len(argv) < MaxArgs
FairSpec == InitShort /\ [][Next]_vars /\ WF_vars(Next)

(* ---------------------------------------------------------- properties *)

Range(f) == {f[k] : k \in DOMAIN f}
IsPrefix(s, t) == Len(s) <= Len(t) /\ SubSeq(t, 1, Len(s)) = s

\* The kinds of abnormal result so far, in dispatch k and in the whole run.
KindsAt(k) == {ev[2] : ev \in {e \in Range(events) : e[1] = k}}
Kinds == {ev[2] : ev \in Range(events)}

\* Abnormal results the copy rides out: partial transfers and interruptions
\* (and the buffering warning, which touches no data).
TransientKinds == {"write_partial", "write_eintr", "read_partial",
                   "read_eintr", "setvbuf"}

\* What the running copy has appended to the output, and what its input
\* held, from the position it started at.
CopiedBytes == SubSeq(out, copyFrom + 1, Len(out))
InputAtStart == SubSeq(InContent, copyInPos + 1, Len(InContent))

\* C1: one copy_stream call on a finite input, under partial writes and
\* transient interruptions only: when it returns, it returns success and the
\* bytes it appended to the output are exactly the input's bytes, in order.
C1_CopyIsExact ==
    (pc = "copy_ret" /\ KindsAt(Len(dispatched)) \subseteq TransientKinds)
        => (copy_rc = 0 /\ CopiedBytes = InputAtStart)

\* A copy of the file longer than the buffer has returned after a partial
\* write and an interrupted write.
C1_Witness ==
    /\ pc = "copy_ret"
    /\ in = "file"
    /\ Len(InputAtStart) > BUFFER_SIZE
    /\ KindsAt(Len(dispatched)) = {"write_partial", "write_eintr"}
    /\ CopiedBytes = InputAtStart

\* The concatenation of the inputs the arguments name: a file gives its
\* content, standard input gives what is left of it (all of it, once).
RECURSIVE Concatenation(_, _)
Concatenation(args, stdinLeft) ==
    IF args = << >> THEN << >>
    ELSE IF Head(args) \in {"-", NULL}
         THEN stdinLeft \o Concatenation(Tail(args), << >>)
         ELSE FileContent(Head(args)) \o Concatenation(Tail(args), stdinLeft)

\* Every argument is a path that opens (or "-").
AllInputsOpen == \A k \in 1..Len(argv) : argv[k] \in ExistingFiles \cup {"-"}
\* No input failed to read or to close so far.
InputsReadAndClose == Kinds \cap {"read_eio", "read_zero", "close"} = {}
\* No write to standard output failed or met a broken pipe so far.
OutputAccepts == Kinds \cap {"write_epipe", "write_eio", "write_zero"} = {}

\* main has returned: the exit of a run that got past the platform setup
\* and met no help or version flag.
MainReturned == pc = "done" /\ exitVia = "main"

C2_States ==
    (Len(argv) > 0 /\ AllInputsOpen /\ InputsReadAndClose /\ OutputAccepts)
        => /\ IsPrefix(out, Concatenation(argv, StdinContent))
           /\ MainReturned => out = Concatenation(argv, StdinContent)

FlagBeforeTerminator ==
    \E k \in 1..Len(argv) :
        /\ IsHelp(argv[k]) \/ IsVersion(argv[k])
        /\ \A j \in 1..(k - 1) : ~IsTerminator(argv[j])

\* C3: with a help or version flag anywhere before the first "--" (and the
\* platform setup done), no path is ever dispatched, nothing is opened, and
\* the process exits with success and only the flag's text on the output.
C3_FlagShortCircuits ==
    (FlagBeforeTerminator /\ exitVia # "setup")
        => /\ dispatched = << >>
           /\ opened = << >>
           /\ pc = "done" => /\ exitStatus = "success"
                             /\ out \in {UsageText, VersionText}

\* A final flush that counts as success: fflush returned 0, or the stdout
\* loop met a broken pipe.
FlushSucceeded(f) == f \in {"ok", "epipe"}

\* C4: a run that does not end through help or version exits with success
\* exactly if every dispatched path returned success and both final flushes
\* succeeded; a recorded failure stays recorded in overall_rc.
C4_States ==
    /\ (pc = "done" /\ exitVia \notin {"usage", "version"})
         => (exitStatus = "success"
               <=> /\ \A k \in 1..Len(verdicts) : verdicts[k] = 0
                   /\ Len(flushes) = 2
                   /\ \A k \in 1..Len(flushes) : FlushSucceeded(flushes[k]))
    /\ (\E k \in 1..Len(verdicts) : verdicts[k] = 1) => overall_rc = 1
    /\ "fail" \in Range(flushes) => overall_rc = 1

\* C4: the exit status is success exactly if every dispatch and both final
\* flushes succeeded, in every state of every run.
C4_ExitStatus == [](C4_States)

\* A run whose first path failed and whose second succeeded has exited.
C4_Witness ==
    /\ pc = "done"
    /\ exitVia = "main"
    /\ verdicts = <<1, 0>>
    /\ flushes = <<"ok", "ok">>
    /\ exitStatus = "failure"

\* The arguments main classifies as paths, in order, up to the flag that
\* ends the run (if any).
RECURSIVE PathArgs(_, _)
PathArgs(args, ended) ==
    IF args = << >> THEN << >>
    ELSE LET c == Classify(Head(args), ended)
         IN  IF c \in {"help", "version"} THEN << >>
             ELSE IF c = "terminator" THEN PathArgs(Tail(args), 1)
             ELSE <<Head(args)>> \o PathArgs(Tail(args), ended)

\* main is past its loop over the arguments.
LoopOver == pc \in {"flush_stdout", "flush_stderr", "return"} \/ MainReturned

\* C5: the paths are dispatched once each, in command-line order, whatever
\* the earlier ones did: the dispatches so far are a prefix of the path
\* arguments, and once the loop is over they are all of them.
C5_States ==
    LET paths == PathArgs(argv, 0)
    IN  IF paths = << >>
        THEN dispatched \in {<< >>, <<NULL>>}
        ELSE /\ IsPrefix(dispatched, paths)
             /\ LoopOver => dispatched = paths

\* C5: every path is dispatched once, in command-line order, whatever the
\* earlier ones did, in every state of every run.
C5_EveryPathDispatched == [](C5_States)

\* The first of two paths met a fatal write error on the shared output, and
\* the second was dispatched all the same.
C5_Witness ==
    /\ LoopOver
    /\ Len(dispatched) = 2
    /\ "write_eio" \in KindsAt(1)
    /\ verdicts[1] = 1

\* The step just taken met the abnormal result kind.
Met(kind) ==
    /\ Len(events') = Len(events) + 1
    /\ events'[Len(events')][2] = kind
\* The stream copy_stream reads, after the step.
InStreamNext == IF in = "stdin" THEN stdinS' ELSE fileS'

\* The write that just returned was a zero-byte write on a broken pipe.
BrokenPipeWrite == pc = "fwrite" /\ Met("write_epipe")

\* C6, the step: a zero-byte write on a broken pipe ends the copy at once
\* with success and without a diagnostic or a byte written; a broken pipe
\* at the final flush of standard output goes on to the stderr flush with
\* the exit status untouched and without a diagnostic.
C6_Step ==
    /\ BrokenPipeWrite
         => /\ pc' = "copy_ret"
            /\ copy_rc' = 0
            /\ err' = err
            /\ out' = out
            /\ ~stdoutErr'
    /\ (pc = "flush_stdout" /\ Met("flush_epipe"))
         => /\ pc' = "flush_stderr"
            /\ overall_rc' = overall_rc
            /\ err' = err

\* C6, the states: after a broken-pipe write no further read or write is
\* issued for that source, and a run that met nothing abnormal except
\* broken pipes (on writes, at the final stdout flush) has no diagnostic
\* and exits with success.
C6_States ==
    /\ "write_epipe" \in KindsAt(Len(dispatched)) => pc \notin {"fread", "fwrite"}
    /\ Kinds \subseteq {"write_epipe", "flush_epipe"}
         => /\ err = << >>
            /\ overall_rc = 0
            /\ MainReturned => exitStatus = "success"

\* C6: a broken pipe on the output is success, for the copy in progress and
\* for the final flush, and a run whose only abnormal condition is the
\* disconnect exits with success.
C6_BrokenPipeIsSuccess == [](C6_States) /\ [][C6_Step]_vars

\* A run has exited after a broken pipe in the middle of the first copy, in
\* the second copy and at the final flush.
C6_Witness ==
    /\ MainReturned
    /\ Len(dispatched) = 2
    /\ KindsAt(1) = {"write_epipe"}
    /\ Len(out) > 0
    /\ KindsAt(2) = {"flush_epipe"}
    /\ exitStatus = "success"

\* The call that just returned was interrupted before it transferred a byte.
InterruptedRead == pc = "fread" /\ Met("read_eintr")
InterruptedWrite == pc = "fwrite" /\ Met("write_eintr")
InterruptedFlush ==
    \/ pc = "flush_stdout" /\ Met("flush_eintr")
    \/ pc = "flush_stderr" /\ Met("eflush_eintr")

\* C7, the step: an interrupted read, write or flush leaves the process at
\* the same call with the error indicator cleared, no diagnostic, no
\* verdict and no byte written; the write is retried at the same cursor.
C7_Step ==
    /\ InterruptedRead
         => /\ pc' = "fread"
            /\ ~InStreamNext.err
            /\ InStreamNext.pos = InStream.pos
            /\ err' = err /\ out' = out /\ verdicts' = verdicts
    /\ InterruptedWrite
         => /\ pc' = "fwrite"
            /\ ~stdoutErr'
            /\ written_total' = written_total
            /\ bytes_read' = bytes_read
            /\ buffer' = buffer
            /\ err' = err /\ out' = out /\ verdicts' = verdicts
    /\ InterruptedFlush
         => /\ pc' = pc
            /\ IF pc = "flush_stdout" THEN ~stdoutErr' ELSE ~stderrErr'
            /\ err' = err /\ out' = out /\ overall_rc' = overall_rc

\* C7, the states: a run that met nothing abnormal except interruptions has
\* no diagnostic and no failure, and returns with every input byte on the
\* output once, in order.
C7_States ==
    Kinds \subseteq {"read_eintr", "write_eintr", "flush_eintr", "eflush_eintr"}
        => /\ err = << >>
           /\ overall_rc = 0
           /\ MainReturned => /\ exitStatus = "success"
                              /\ out = Concatenation(dispatched, StdinContent)

\* C7: a transient interruption is never reported and never a failure; the
\* call is re-issued in place and no byte is skipped or repeated.
C7_InterruptionRetried == [](C7_States) /\ [][C7_Step]_vars

\* A run has returned after an interrupted read and an interrupted write in
\* the middle of copying the file.
C7_Witness ==
    /\ MainReturned
    /\ dispatched = <<"a">>
    /\ Kinds = {"read_eintr", "write_eintr"}
    /\ out = FileContent("a")
    /\ exitStatus = "success"

IsNamedFile(p) == p \in ExistingFiles
Front(q) == SubSeq(q, 1, Len(q) - 1)

\* C8: a handle is open only while its copy runs or has just returned, at
\* most one at a time; every opened handle is closed once, in order, before
\* the next path is dispatched and before exit; exactly the named files
\* that open are opened, never standard input.
C8_HandleDiscipline ==
    /\ input_file # "none"
         => (pc \in {"fread", "fwrite", "copy_ret"} /\ in = "file")
    /\ IF input_file = "none"
       THEN closed = opened
       ELSE opened = Append(closed, input_file)
    /\ opened = SelectSeq(IF pc = "process_path" THEN Front(dispatched)
                                                 ELSE dispatched, IsNamedFile)

\* Two files were opened and closed, the first after a copy that failed.
C8_Witness ==
    /\ pc = "done"
    /\ opened = <<"a", "a">>
    /\ closed = <<"a", "a">>
    /\ verdicts = <<1, 0>>
    /\ "close" \notin Kinds

\* C9: once process_path has returned for a named file that opened, its
\* verdict is failure exactly if the copy failed or the close failed; a
\* failed close leaves a diagnostic naming the path, a failure verdict and
\* a failure exit status.
C9_CloseFailureCounts ==
    /\ (/\ Len(dispatched) > 0
        /\ Len(verdicts) = Len(dispatched)
        /\ dispatched[Len(dispatched)] \in ExistingFiles)
         => (verdicts[Len(verdicts)] = 1
               <=> (copy_rc # 0 \/ "close" \in KindsAt(Len(dispatched))))
    /\ \A k \in 1..Len(verdicts) :
         "close" \in KindsAt(k)
            => /\ verdicts[k] = 1
               /\ Diag("close", dispatched[k]) \in Range(err)
    /\ (MainReturned /\ "close" \in Kinds) => exitStatus = "failure"

\* The file was copied in full, its close failed, and the run has failed.
C9_Witness ==
    /\ MainReturned
    /\ argv = <<"a">>
    /\ Kinds = {"close"}
    /\ copy_rc = 0
    /\ out = FileContent("a")
    /\ verdicts = <<1>>
    /\ exitStatus = "failure"

\* process_path is about to open a named path that does not open.
OpenFails == pc = "process_path" /\ ~IsStdinPath(path) /\ path \notin ExistingFiles

\* C10, the step: a failed open emits one diagnostic naming the path and
\* returns failure to main; nothing is read, closed or written, and the
\* output and the buffer are as before.
C10_Step ==
    OpenFails
        => /\ err' = Append(err, Diag("open", path))
           /\ verdicts' = Append(verdicts, 1)
           /\ pc' \in {"main_loop", "flush_stdout"}
           /\ out' = out /\ buffer' = buffer
           /\ opened' = opened /\ closed' = closed
           /\ stdinS' = stdinS /\ fileS' = fileS
           /\ bytes_read' = bytes_read /\ written_total' = written_total

\* C10: a failed open is reported once and is a failure, and the copy
\* engine never runs for it.
C10_OpenFailure ==
    /\ [](pc \in {"fread", "fwrite", "copy_ret"}
            => (in = "stdin" \/ input_file \in ExistingFiles))
    /\ [][C10_Step]_vars

\* After a file was copied, the next path failed to open.
C10_Witness ==
    /\ pc = "main_loop"
    /\ dispatched = <<"a", "x">>
    /\ verdicts = <<0, 1>>
    /\ out = FileContent("a")
    /\ err = <<Diag("open", "x")>>

\* The implicit dispatches so far: the calls process_path(NULL).
ImplicitDispatches == SelectSeq(dispatched, LAMBDA p : p = NULL)

\* C11: the implicit standard-input copy is dispatched at most once, only
\* after the loop and only if no argument was a path, and then it reads
\* standard input; once the loop is over, it has been dispatched exactly
\* if no argument was a path (the list is empty or is the lone "--"), and
\* a run with a path argument, failed or not, never dispatches it.
C11_ImplicitStdinOnce ==
    /\ Len(ImplicitDispatches) <= 1
    /\ NULL \in Range(dispatched)
         => /\ dispatched = <<NULL>>
            /\ argv \in {<< >>, <<"--">>}
            /\ i > Len(argv)
            /\ pc \in {"fread", "fwrite", "copy_ret"} => in = "stdin"
    /\ LoopOver
         => IF PathArgs(argv, 0) = << >>
            THEN argv \in {<< >>, <<"--">>} /\ dispatched = <<NULL>>
            ELSE NULL \notin Range(dispatched) /\ files_processed = 1

\* The lone "--" was given and the run returned with standard input copied
\* by the one implicit dispatch.
C11_Witness ==
    /\ MainReturned
    /\ argv = <<"--">>
    /\ dispatched = <<NULL>>
    /\ out = StdinContent
    /\ exitStatus = "success"

\* The position of the first "--" of a list that holds one, and the list
\* without it.
FirstTerminator(args) ==
    CHOOSE t \in 1..Len(args) :
        /\ args[t] = "--"
        /\ \A j \in 1..(t - 1) : args[j] # "--"
WithoutFirstTerminator(args) ==
    LET t == FirstTerminator(args)
    IN  SubSeq(args, 1, t - 1) \o SubSeq(args, t + 1, Len(args))

\* The arguments dispatched so far (the implicit dispatch is of none).
ArgDispatches == SelectSeq(dispatched, LAMBDA p : p # NULL)

\* C12: options_ended is set exactly when the loop has passed a "--"; from
\* then on no help or version exit happens, and the dispatches are the
\* argument list without its first "--", every later word (flags, "-" and
\* further "--" included) dispatched as a path in its place; the run
\* "a -- -" dispatches the file and then standard input, and nothing else.
C12_TerminatorEndsOptions ==
    /\ options_ended = 1 <=> \E j \in 1..Min(i - 1, Len(argv)) : argv[j] = "--"
    /\ options_ended = 1
         => /\ exitVia \notin {"usage", "version"}
            /\ IsPrefix(ArgDispatches, WithoutFirstTerminator(argv))
            /\ LoopOver => ArgDispatches = WithoutFirstTerminator(argv)
    /\ (argv = <<"a", "--", "-">> /\ LoopOver)
         => /\ dispatched = <<"a", "-">>
            /\ opened = <<"a">>
            /\ (MainReturned /\ Kinds = {})
                 => out = FileContent("a") \o StdinContent

\* The run "a -- -" has returned with the file and then standard input on
\* the output.
C12_Witness ==
    /\ MainReturned
    /\ argv = <<"a", "--", "-">>
    /\ dispatched = <<"a", "-">>
    /\ out = FileContent("a") \o StdinContent


\* Nothing of the run has happened yet: no argument examined, no input
\* opened or read, nothing written.
NothingDoneYet ==
    /\ i = 1 /\ options_ended = 0 /\ files_processed = 0
    /\ dispatched = << >> /\ opened = << >>
    /\ stdinS = FreshStream /\ fileS = FreshStream
    /\ out = << >>

\* C13, the states: while platform_setup has not returned nothing of the
\* run has happened, and a run it ended has a failure status, its one
\* diagnostic, and still nothing opened, read or written.
C13_States ==
    /\ pc = "platform_setup" => (NothingDoneYet /\ err = << >>)
    /\ exitVia = "setup"
         => /\ pc = "done"
            /\ exitStatus = "failure"
            /\ err = <<Diag("setup", "SIGPIPE")>>
            /\ NothingDoneYet

\* C13, the step: platform_setup is left by its one step and never entered
\* again; when its setup fails, that step is the exit with failure.
C13_Step ==
    /\ pc' = "platform_setup" => pc = "platform_setup"
    /\ pc = "platform_setup"
         => /\ pc' \in {"stdout_setvbuf", "done"}
            /\ pc' = "done" <=> Met("setup")
            /\ Met("setup") => (exitStatus' = "failure" /\ exitVia' = "setup")
    /\ exitVia' = "setup" => pc = "platform_setup"

\* C13: platform_setup runs once, before anything else, and its fatal
\* failure ends the run with a diagnostic and a failure status before any
\* input is opened or any byte read or written.
C13_PlatformSetupFirst == [](C13_States) /\ [][C13_Step]_vars

\* A run given a file to copy has ended in platform_setup.
C13_Witness ==
    /\ pc = "done"
    /\ exitVia = "setup"
    /\ argv = <<"a">>
    /\ exitStatus = "failure"
    /\ out = << >>


\* The bytes of the last read that the write cursor has not passed: what the
\* transfer buffer holds read and unwritten.
UnwrittenInBuffer == SubSeq(buffer, written_total + 1, bytes_read)

\* What the running copy has read from its input so far.
ReadByCopy == SubSeq(InContent, copyInPos + 1, InStream.pos)

\* C14 as stated: whenever a read is about to be issued, the first read of
\* a source included, the buffer holds no byte that was read and not
\* written.
C14_Original == pc = "fread" => UnwrittenInBuffer = << >>

\* C14, amended, the states: whenever a read is about to be issued, every
\* byte the running copy has read from its source has been written, in
\* order; bytes a copy that returned early left unwritten are still in the
\* buffer at the first read of the next source, and in no later read.
C14_States ==
    pc = "fread"
        => /\ CopiedBytes = ReadByCopy
           /\ UnwrittenInBuffer # << >>
                => /\ ReadByCopy = << >>
                   /\ Len(dispatched) > 1
                   /\ Kinds \cap {"write_epipe", "write_eio", "write_zero"} # {}

\* C14, amended, the step: the write loop hands over to the next read only
\* with the cursor at the fill length, and a read that delivers bytes
\* starts the cursor at 0.
C14_Step ==
    /\ (pc = "fwrite" /\ pc' = "fread")
         => (written_total' = bytes_read /\ bytes_read' = bytes_read)
    /\ (pc = "fread" /\ pc' = "fwrite")
         => (written_total' = 0 /\ bytes_read' > 0)

\* C14, amended: within one copy a read is issued only when every byte of
\* the reads before it has been written.
C14_ReadAfterWritten == [](C14_States) /\ [][C14_Step]_vars

\* The second read of the file is about to be issued after the first
\* buffer went out in two partial writes.
C14_Witness ==
    /\ pc = "fread"
    /\ in = "file"
    /\ ReadByCopy # << >>
    /\ "write_partial" \in KindsAt(Len(dispatched))
    /\ CopiedBytes = ReadByCopy
    /\ written_total = bytes_read


\* The write that just returned transferred nothing and left the output in
\* an error state that is neither broken pipe nor interruption: a new
\* error, or no new error with the indicator still set from before.
FatalZeroWrite ==
    /\ pc = "fwrite"
    /\ \/ Met("write_eio")
       \/ Met("write_zero") /\ stdoutErr /\ errno \notin {"EPIPE", "EINTR"}

\* The write that just returned transferred nothing and the output is in no
\* error state.
UnexpectedZeroWrite == pc = "fwrite" /\ Met("write_zero") /\ ~stdoutErr

\* Dispatch k met a zero-byte write that ends its copy with failure: a new
\* fatal error, or no new error with at most one abnormal result before it
\* (the stale indicator and a stale interruption errno take two).
FailedWriteAt(k) ==
    \E n \in 1..Len(events) :
        \/ events[n] = <<k, "write_eio">>
        \/ events[n] = <<k, "write_zero">> /\ n <= 2

\* C15, the step: a zero-byte write with the output in a fatal error state,
\* or in no error state, ends the copy at once with failure and its own
\* diagnostic; nothing is written and the cursor stays where it was.
C15_Step ==
    /\ FatalZeroWrite
         => /\ pc' = "copy_ret" /\ copy_rc' = 1
            /\ err' = Append(err, Diag("write", "stdout"))
            /\ written_total' = written_total /\ out' = out
    /\ UnexpectedZeroWrite
         => /\ pc' = "copy_ret" /\ copy_rc' = 1
            /\ err' = Append(err, Diag("zero_write", "stdout"))
            /\ written_total' = written_total /\ out' = out

\* C15, the states: after such a write the copy issues no further read or
\* write, the verdict of its dispatch is failure and so is the exit status.
C15_States ==
    /\ \A k \in 1..Len(dispatched) :
         FailedWriteAt(k)
            => /\ k = Len(dispatched) => pc \notin {"fread", "fwrite"}
               /\ k <= Len(verdicts) => verdicts[k] = 1
               /\ MainReturned => exitStatus = "failure"

\* C15: a zero-byte write that is neither broken pipe nor interruption is
\* a failure with a diagnostic, never retried, the cursor not advanced.
C15_ZeroWriteFails == [](C15_States) /\ [][C15_Step]_vars

\* A copy has failed on a zero-byte write with the cursor in the middle
\* of the buffer, after a partial write.
C15_Witness ==
    /\ pc = "copy_ret"
    /\ copy_rc = 1
    /\ KindsAt(Len(dispatched)) = {"write_partial", "write_eio"}
    /\ 0 < written_total /\ written_total < bytes_read
    /\ Len(CopiedBytes) = written_total
    /\ err = <<Diag("write", "stdout")>>


\* The read that just returned delivered nothing.
ZeroRead == pc = "fread" /\ pc' # "fwrite" /\ vars' # vars

\* C16, the step: a read of zero bytes writes nothing and stores nothing;
\* at end-of-input it ends the copy with success and no diagnostic; with
\* the input in a non-transient error state it ends the copy with failure
\* and one diagnostic naming the input; with no indicator set it ends the
\* copy with success; and a copy fails at a read in that one case only.
C16_Step ==
    ZeroRead
        => /\ out' = out /\ buffer' = buffer /\ readLog' = readLog
           /\ bytes_read' = 0
           /\ InStreamNext.pos = InStream.pos
           /\ InStreamNext.eof
                => (pc' = "copy_ret" /\ copy_rc' = 0 /\ err' = err)
           /\ (~InStreamNext.eof /\ InStreamNext.err)
                => /\ pc' = "copy_ret" /\ copy_rc' = 1
                   /\ errno' # "EINTR"
                   /\ err' = Append(err, Diag("read", stream_name))
                   /\ stream_name = (IF in = "stdin" THEN "stdin" ELSE path)
           /\ (Met("read_zero") /\ ~InStream.err)
                => (pc' = "copy_ret" /\ copy_rc' = 0 /\ err' = err)
           /\ (pc' = "copy_ret" /\ copy_rc' = 1)
                => (~InStreamNext.eof /\ InStreamNext.err)
           /\ pc' \in {"copy_ret", "fread"}
           /\ pc' = "fread" => (errno' = "EINTR" /\ err' = err)

\* C16, the states: a run whose only abnormal results are zero reads with
\* no indicator has no diagnostic and no failure, and its output is what
\* was read; a dispatch that met a fatal read error has a failure verdict.
C16_States ==
    /\ Kinds \subseteq {"read_zero"}
         => /\ err = << >> /\ overall_rc = 0
            /\ pc = "fread" => out = readLog
            /\ MainReturned => (exitStatus = "success" /\ out = readLog)
    /\ \A k \in 1..Len(verdicts) : "read_eio" \in KindsAt(k) => verdicts[k] = 1

\* C16: what a read of zero bytes does, by the state of the input.
C16_ZeroReadOutcomes == [](C16_States) /\ [][C16_Step]_vars

\* The copy of the file ended in the defensive branch after its first
\* buffer, with success and the file cut short on the output.
C16_Witness ==
    /\ pc = "copy_ret"
    /\ in = "file"
    /\ copy_rc = 0
    /\ KindsAt(Len(dispatched)) = {"read_zero"}
    /\ CopiedBytes = ReadByCopy
    /\ 0 < Len(ReadByCopy) /\ Len(ReadByCopy) < Len(InContent)
    /\ err = << >>


\* The step was a retry after an interruption: the same call is up again.
RetryStep == pc' = pc /\ errno' = "EINTR"

\* C17, the step: a write that is not an interrupted one advances the
\* cursor or ends the copy; a read that is not an interrupted one delivers
\* bytes into the buffer or ends the copy; a retry costs the environment
\* one of its interruptions.
C17_Step ==
    /\ (pc = "fwrite" /\ ~RetryStep)
         => \/ pc' = "copy_ret"
            \/ /\ written_total' > written_total
               /\ written_total' <= bytes_read
               /\ pc' \in {"fwrite", "fread"}
    /\ (pc = "fread" /\ ~RetryStep)
         => \/ pc' = "copy_ret"
            \/ /\ pc' = "fwrite"
               /\ bytes_read' > 0 /\ bytes_read' <= BUFFER_SIZE
               /\ Len(readLog') = Len(readLog) + bytes_read'
    /\ (pc \in {"fread", "fwrite"} /\ RetryStep) => faults' = faults + 1

\* C17: every copy returns and every run reaches process exit, and the
\* loops of the copy make progress at every step that is not a retry.
C17_NeverBlocks ==
    /\ <>(pc = "done")
    /\ [](pc \in {"fread", "fwrite"} => <>(pc = "copy_ret"))
    /\ [][C17_Step]_vars

\* A run has exited after its copy of the file was interrupted at a read
\* and at a write.
C17_Witness ==
    /\ pc = "done"
    /\ argv = <<"a">>
    /\ Kinds = {"read_eintr", "write_eintr"}
    /\ verdicts = <<0>>
    /\ out = FileContent("a")


\* C18, the states: the flush of stdout starts when every dispatch has
\* returned, the flush of stderr when that of stdout is over, whatever its
\* result, and main returns when both are over; a failed flush of stderr
\* is a failure exit.
C18_States ==
    /\ pc = "flush_stdout"
         => (flushes = << >> /\ Len(verdicts) = Len(dispatched)
             /\ Len(dispatched) > 0 /\ input_file = "none")
    /\ pc = "flush_stderr" => Len(flushes) = 1
    /\ (pc = "return" \/ MainReturned)
         => (Len(flushes) = 2 /\ flushes[2] \in {"ok", "fail"})
    /\ Len(flushes) > 0 => pc \in {"flush_stderr", "return", "done"}
    /\ (MainReturned /\ Kinds \cap {"eflush_epipe", "eflush_eio"} # {})
         => exitStatus = "failure"
    /\ (MainReturned /\ "flush_eio" \in Kinds)
         => (exitStatus = "failure" /\ Diag("flush", "stdout") \in Range(err))

\* C18, the step: the flush of stdout is left for the flush of stderr
\* only; a fatal failure of it is a diagnostic and overall_rc = 1; a broken
\* pipe or any other fatal failure of the stderr flush is overall_rc = 1
\* and no diagnostic.
C18_Step ==
    /\ pc = "flush_stdout" => pc' \in {"flush_stdout", "flush_stderr"}
    /\ pc = "flush_stderr" => pc' \in {"flush_stderr", "return"}
    /\ (pc = "flush_stdout" /\ Met("flush_eio"))
         => /\ pc' = "flush_stderr"
            /\ overall_rc' = 1
            /\ err' = Append(err, Diag("flush", "stdout"))
    /\ (pc = "flush_stderr" /\ (Met("eflush_epipe") \/ Met("eflush_eio")))
         => /\ pc' = "return"
            /\ overall_rc' = 1
            /\ err' = err

\* C18: stdout is flushed first and stderr second, both always; the
\* stderr flush counts nothing but success as success and reports nothing,
\* the stdout flush reports its fatal failure.
C18_FinalFlushes == [](C18_States) /\ [][C18_Step]_vars

\* After a copy without fault the flush of stdout failed, the flush of
\* stderr met a broken pipe, and the run failed with the one diagnostic.
C18_Witness ==
    /\ MainReturned
    /\ events = <<<<1, "flush_eio">>, <<1, "eflush_epipe">>>>
    /\ flushes = <<"fail", "fail">>
    /\ err = <<Diag("flush", "stdout")>>
    /\ exitStatus = "failure"

\* What copy number k has read and what it has put on the output, from the
\* marks taken when each copy started.
ReadOf(k) ==
    SubSeq(readLog, starts[k][2] + 1,
           IF k < Len(starts) THEN starts[k + 1][2] ELSE Len(readLog))
WrittenOf(k) ==
    SubSeq(out, starts[k][1] + 1,
           IF k < Len(starts) THEN starts[k + 1][1] ELSE Len(out))

\* C19 as stated: in a run without help or version flags the output is at
\* every moment a prefix of the concatenation, in dispatch order, of the
\* bytes read so far.
C19_Original == ~FlagBeforeTerminator => IsPrefix(out, readLog)

\* C19, amended: in a run without help or version flags the output is at
\* every moment the concatenation, in dispatch order, of one prefix per
\* copy of the bytes that copy has read: nothing is on the output before
\* the first copy or between copies, every byte of it was read, and a copy
\* that is over left bytes it read unwritten only if a write failed or
\* met a broken pipe.
C19_States ==
    ~FlagBeforeTerminator
        => /\ starts = << >> => (out = << >> /\ readLog = << >>)
           /\ starts # << >> => starts[1] = <<0, 0>>
           /\ \A k \in 1..Len(starts) :
                /\ IsPrefix(WrittenOf(k), ReadOf(k))
                /\ (WrittenOf(k) # ReadOf(k)
                      /\ (k < Len(starts) \/ pc \notin {"fread", "fwrite"}))
                     => Kinds \cap {"write_epipe", "write_eio",
                                    "write_zero"} # {}
           /\ Range(out) \subseteq Range(readLog)
           /\ Len(out) <= Len(readLog)

\* C19, amended: the output is always the concatenation, in dispatch
\* order, of one prefix per copy of the bytes that copy has read.
C19_OutputIsCopiedBytes == [](C19_States)

\* The copy of the file failed on a write after one byte of its first
\* buffer; standard input was copied after it and the run has returned.
C19_Witness ==
    /\ MainReturned
    /\ argv = <<"a", "-">>
    /\ events = <<<<1, "write_partial">>, <<1, "write_eio">>>>
    /\ Len(starts) = 2
    /\ WrittenOf(1) = <<11>>
    /\ ReadOf(1) = <<11, 12>>
    /\ out = <<11>> \o StdinContent


====
